---- MODULE Spec2Model ----
(***************************************************************************)
(* A model of the kmeans crate (src/lib.rs, src/types.rs): the k-means++   *)
(* seeding, the assignment pass, the centroid recalculation, the           *)
(* convergence loop of kmeans, and the built-in integer tuple adapters of  *)
(* DataPoint (dist and mean).                                              *)
(*                                                                         *)
(* Points are tuples of integers. dist returns an f64 square root in the   *)
(* source; the model keeps the value under the root (an integer). On the   *)
(* values met here f64::sqrt is exact at 0 and strictly increasing, so     *)
(* comparisons of distances, zero tests and the sign of the seeding        *)
(* weights dist(..).powi(2) are the same on the radicand.                  *)
(***************************************************************************)
EXTENDS Integers, Sequences, FiniteSets, TLC

\* Bounds of the explored inputs.
MaxCoord == 1
MaxLen == 3
MaxWeight == 2
MaxMeanLen == 2

\* u8, the narrowest unsigned coordinate type (types.rs:297), has 8 bits.
TypeBits == 8
TypeRange == 2 ^ TypeBits

VARIABLES
    k,              \* kmeans argument k
    datapoints,     \* kmeans argument datapoints
    pool,           \* _initialize_clusters: its own copy of datapoints
    first_point,    \* _initialize_clusters: first_point (<<>> before the draw)
    removed,        \* the points taken out of pool so far, in order
    distribution,   \* _initialize_clusters: distribution
    clusters,       \* kmeans: clusters
    prev_clusters,  \* kmeans: prev_clusters
    pc,             \* position in kmeans
    err,            \* the panic message once pc = "Panic"
    call            \* a call of one adapter function or of select_point

vars == <<k, datapoints, pool, first_point, removed, distribution, clusters,
          prev_clusters, pc, err, call>>

----------------------------------------------------------------------------
\* Helpers on sequences.

RECURSIVE SeqSum(_)
SeqSum(s) == IF s = <<>> THEN 0 ELSE s[1] + SeqSum(Tail(s))

\* Vec::remove(i), i counted from 1 here.
Remove(s, i) == [j \in 1..(Len(s) - 1) |-> IF j < i THEN s[j] ELSE s[j + 1]]

RECURSIVE Concat(_)
Concat(ss) == IF ss = <<>> THEN <<>> ELSE ss[1] \o Concat(Tail(ss))

Count(x, s) == Cardinality({i \in 1..Len(s) : s[i] = x})

Range(s) == {s[i] : i \in 1..Len(s)}

----------------------------------------------------------------------------
\* types.rs: the unsigned and signed integer tuple adapters.

abs_sub(a, b) == IF a > b THEN a - b ELSE b - a

\* x.pow(2) computed in the coordinate type $T of an unsigned adapter.
pow2_overflows(x) == x * x >= TypeRange
pow2_wrapping(x) == (x * x) % TypeRange

\* impl_unsigned_*d_data_point::dist in a build without overflow checks:
\* the radicand, each square taken modulo 2^TypeBits before the cast to f64.
unsigned_dist(a, b) ==
    SeqSum([j \in 1..Len(a) |-> pow2_wrapping(abs_sub(a[j], b[j]))])

\* With overflow checks (debug builds) a square that leaves $T panics.
unsigned_dist_overflows(a, b) ==
    \E j \in 1..Len(a) : pow2_overflows(abs_sub(a[j], b[j]))

\* impl_signed_*d_data_point::dist: coordinates widened to isize first. For
\* i8 coordinates the difference and its square always fit isize.
signed_dist(a, b) ==
    SeqSum([j \in 1..Len(a) |-> (a[j] - b[j]) * (a[j] - b[j])])

\* Rust's integer division truncates toward zero.
trunc_div(a, b) == IF a >= 0 THEN a \div b ELSE -((-a) \div b)

\* The fold of mean: coordinate 1 (the second) accumulates next.0, every
\* other coordinate j accumulates next.j.
fold_source(j) == IF j = 2 THEN 1 ELSE j

mean_sum(ps, j) == SeqSum([i \in 1..Len(ps) |-> ps[i][fold_source(j)]])

\* impl_unsigned_*d_data_point::mean and impl_signed_*d_data_point::mean
\* for a non-empty ps (an empty ps divides by zero).
mean(ps) == [j \in 1..Len(ps[1]) |-> trunc_div(mean_sum(ps, j), Len(ps))]

\* DataPoint::dist as kmeans uses it: the u8 adapter. The coordinates kmeans
\* is run on here stay below 2^(TypeBits/2), where no square overflows and
\* debug and release builds agree.
dist(a, b) == unsigned_dist(a, b)

----------------------------------------------------------------------------
\* types.rs: Cluster.

Cluster_new(centroid) == [centroid |-> centroid, points |-> <<>>]

centroids(cs) == [i \in 1..Len(cs) |-> cs[i].centroid]

\* recalculate_centroid followed by points.clear() (lib.rs:37-38).
recalculate_centroid(c) == [centroid |-> mean(c.points), points |-> <<>>]

----------------------------------------------------------------------------
\* lib.rs: _cluster.

\* A slip at lib.rs:126: <= for <, so that a tie moves to the later cluster.
closer_or_equal(d1, d2) == d1 <= d2

\* The comparison at lib.rs:126.
closer(d1, d2) == d1 < d2

\* The loop of _cluster: c runs over 1..clusters.len() (0-based), best is
\* closest_cluster. Indices are 1-based here.
RECURSIVE closest_cluster(_, _, _, _)
closest_cluster(p, cs, c, best) ==
    IF c > Len(cs) THEN best
    ELSE closest_cluster(p, cs, c + 1,
            IF closer(dist(p, cs[c].centroid), dist(p, cs[best].centroid))
            THEN c ELSE best)

\* A slip at lib.rs:130: the push written inside the if of the loop, so
\* that a point is pushed whenever a closer cluster is met and never into
\* cluster 0.
RECURSIVE push_in_loop(_, _, _, _)
push_in_loop(p, cs, c, best) ==
    IF c > Len(cs) THEN cs
    ELSE IF closer(dist(p, cs[c].centroid), dist(p, cs[best].centroid))
         THEN push_in_loop(p, [cs EXCEPT ![c].points = Append(@, p)], c + 1, c)
         ELSE push_in_loop(p, cs, c + 1, best)

_cluster_push_in_loop(p, cs) == push_in_loop(p, cs, 2, 1)

_cluster(p, cs) ==
    LET b == closest_cluster(p, cs, 2, 1)
    IN  [cs EXCEPT ![b].points = Append(@, p)]

\* for point in datapoints.iter() { _cluster(point, &mut clusters) }
RECURSIVE cluster_all(_, _)
cluster_all(ps, cs) ==
    IF ps = <<>> THEN cs ELSE cluster_all(Tail(ps), _cluster(ps[1], cs))

----------------------------------------------------------------------------
\* lib.rs: select_point and shortest_center_distance.

\* selection_criteria[i] = distribution[i] + sum of distribution[0..i].
selection_criteria(d) ==
    [i \in 1..Len(d) |-> d[i] + SeqSum(SubSeq(d, 1, i - 1))]

\* The loop at lib.rs:89-97, i 0-based from 1 to len - 2. rn2 is twice the
\* draw rn, so that draws on and between the integer criteria are covered.
RECURSIVE select_loop(_, _, _, _)
select_loop(crit, rn2, i, selection) ==
    IF i > Len(crit) - 2 THEN selection
    ELSE IF rn2 > 2 * crit[i + 1]
         THEN select_loop(crit, rn2, i + 1, i)
         ELSE selection

\* select_point for a distribution of positive sum: the 0-based index.
select_point(d, rn2) == select_loop(selection_criteria(d), rn2, 1, 0)

\* gen_range(0.0, distr_sum): the draws rn in [0, distr_sum), doubled.
Draws(d) == 0..(2 * SeqSum(d) - 1)

RECURSIVE SeqMin(_)
SeqMin(s) ==
    IF Len(s) = 1 THEN s[1]
    ELSE LET m == SeqMin(Tail(s)) IN IF s[1] < m THEN s[1] ELSE m

\* shortest_center_distance(..).powi(2): the centers are never empty where
\* it is called.
shortest_center_distance(centers, p) ==
    SeqMin([i \in 1..Len(centers) |-> dist(centers[i], p)])

----------------------------------------------------------------------------
\* The kmeans state machine.

Coords == 0..MaxCoord
Points == Coords \X Coords
NoPoint == <<>>
NoCall == [fn |-> "none"]

\* No call of kmeans has been made.
Idle ==
    /\ k = 0
    /\ datapoints = <<>>
    /\ pool = <<>>
    /\ first_point = NoPoint
    /\ removed = <<>>
    /\ distribution = <<>>
    /\ clusters = <<>>
    /\ prev_clusters = <<>>
    /\ pc = "Idle"
    /\ err = ""

Init == Idle /\ call = NoCall

\* lib.rs:23-25: kmeans(k, datapoints) is called; _initialize_clusters gets
\* a clone of datapoints.
Call ==
    /\ pc = "Idle"
    /\ \E kk \in 0..(MaxLen + 1), n \in 0..MaxLen :
         \E ps \in [1..n -> Points] :
            /\ k' = kk
            /\ datapoints' = ps
            /\ pool' = ps
    /\ pc' = "SeedFirst"
    /\ UNCHANGED <<first_point, removed, distribution, clusters,
                   prev_clusters, err, call>>

Panic(msg) ==
    /\ pc' = "Panic"
    /\ err' = msg
    /\ UNCHANGED <<k, datapoints, pool, first_point, removed, distribution,
                   clusters, prev_clusters, call>>

\* lib.rs:104-107: the uniform draw of first_point and the first weights.
\* gen_range(0, 0) panics on an empty input.
SeedFirst ==
    /\ pc = "SeedFirst"
    /\ IF Len(pool) = 0
       THEN Panic("gen_range: low >= high")
       ELSE \E i \in 1..Len(pool) :
              LET fp == pool[i]
                  rest == Remove(pool, i)
              IN  /\ first_point' = fp
                  /\ pool' = rest
                  /\ removed' = Append(removed, fp)
                  /\ distribution' = [j \in 1..Len(rest) |-> dist(fp, rest[j])]
                  /\ pc' = "SeedLoop"
                  /\ UNCHANGED <<k, datapoints, clusters, prev_clusters, err, call>>

\* lib.rs:110-117: one round of the while loop. gen_range(0.0, distr_sum)
\* panics when distr_sum is 0.0, which includes the empty pool.
SeedSelect ==
    /\ pc = "SeedLoop"
    /\ Len(clusters) < k
    /\ IF SeqSum(distribution) = 0
       THEN Panic("gen_range: low >= high")
       ELSE \E s \in {select_point(distribution, rn2) : rn2 \in Draws(distribution)} :
              LET sel == s + 1
                  point == pool[sel]
                  rest == Remove(pool, sel)
                  cs == Append(clusters, Cluster_new(point))
              IN  /\ pool' = rest
                  /\ removed' = Append(removed, point)
                  /\ clusters' = cs
                  /\ distribution' =
                        [j \in 1..Len(rest) |->
                            shortest_center_distance(centroids(cs), rest[j])]
                  /\ UNCHANGED <<k, datapoints, first_point, prev_clusters,
                                 pc, err, call>>

\* lib.rs:110, 119: the loop ends and _initialize_clusters returns.
SeedReturn ==
    /\ pc = "SeedLoop"
    /\ ~(Len(clusters) < k)
    /\ pc' = "InitialCluster"
    /\ UNCHANGED <<k, datapoints, pool, first_point, removed, distribution,
                   clusters, prev_clusters, err, call>>

\* One assignment pass; clusters[0] does not exist when k = 0.
AssignmentPass(next, keep) ==
    IF clusters = <<>> /\ datapoints # <<>>
    THEN Panic("index out of bounds")
    ELSE /\ clusters' = cluster_all(datapoints, clusters)
         /\ prev_clusters' = IF keep THEN prev_clusters ELSE clusters'
         /\ pc' = next
         /\ UNCHANGED <<k, datapoints, pool, first_point, removed,
                        distribution, err, call>>

\* One recalculation; the integer mean of no points divides by zero.
Recalculation(next) ==
    IF \E i \in 1..Len(clusters) : clusters[i].points = <<>>
    THEN Panic("attempt to divide by zero")
    ELSE /\ clusters' = [i \in 1..Len(clusters) |->
                            recalculate_centroid(clusters[i])]
         /\ pc' = next
         /\ UNCHANGED <<k, datapoints, pool, first_point, removed,
                        distribution, prev_clusters, err, call>>

\* lib.rs:28-33.
InitialCluster == pc = "InitialCluster" /\ AssignmentPass("Recalc", FALSE)

\* lib.rs:36-39.
Recalc == pc = "Recalc" /\ Recalculation("Recluster")

\* lib.rs:41-43.
Recluster == pc = "Recluster" /\ AssignmentPass("While", TRUE)

\* lib.rs:46-47, 58.
While ==
    /\ pc = "While"
    /\ IF prev_clusters # clusters
       THEN /\ prev_clusters' = clusters
            /\ pc' = "LoopRecalc"
       ELSE /\ pc' = "Done"
            /\ UNCHANGED prev_clusters
    /\ UNCHANGED <<k, datapoints, pool, first_point, removed, distribution,
                   clusters, err, call>>

\* lib.rs:48-51.
LoopRecalc == pc = "LoopRecalc" /\ Recalculation("LoopCluster")

\* lib.rs:52-54.
LoopCluster == pc = "LoopCluster" /\ AssignmentPass("While", TRUE)

Next ==
    \/ Call
    \/ SeedFirst
    \/ SeedSelect
    \/ SeedReturn
    \/ InitialCluster
    \/ Recalc
    \/ Recluster
    \/ While
    \/ LoopRecalc
    \/ LoopCluster

Spec == Init /\ [][Next]_vars

\* kmeans is one sequential call: a step that can be taken is taken.
FairSpec == Spec /\ WF_vars(Next)

----------------------------------------------------------------------------
\* The adapter functions and select_point as pure functions: Init draws the
\* arguments, the action applies the function.

kmeansVars == <<k, datapoints, pool, first_point, removed, distribution,
                clusters, prev_clusters, pc, err>>

Adapters == {"unsigned", "signed"}
Dims == {2, 3, 4}

\* debug builds check integer overflow and panic, release builds wrap.
Builds == {"debug", "release"}

\* Coordinates of u8 and of i8 at and around the edges of the type and of
\* the largest difference whose square still fits.
HalfRange == 2 ^ (TypeBits \div 2)
UnsignedEdge == {0, HalfRange - 1, HalfRange, TypeRange - 1}
SignedEdge == {-(TypeRange \div 2), -1, 0, (TypeRange \div 2) - 1}
EdgeCoords(ad) == IF ad = "unsigned" THEN UnsignedEdge ELSE SignedEdge

\* DataPoint::dist of the adapter ad in the given build: the radicand, or
\* -1 for a panic on overflow.
dist_panics(ad, build, a, b) ==
    ad = "unsigned" /\ build = "debug" /\ unsigned_dist_overflows(a, b)

dist_value(ad, a, b) ==
    IF ad = "unsigned" THEN unsigned_dist(a, b) ELSE signed_dist(a, b)

DistInit ==
    /\ Idle
    /\ \E ad \in Adapters, d \in Dims :
         \E a, b \in [1..d -> EdgeCoords(ad)] :
            call = [fn |-> "dist", adapter |-> ad, a |-> a, b |-> b,
                    build |-> "", status |-> "pending", ab |-> 0, ba |-> 0]

\* dist(a, b) and dist(b, a) are evaluated in one build.
DistCall ==
    /\ call.fn = "dist"
    /\ call.status = "pending"
    /\ \E build \in Builds :
         IF \/ dist_panics(call.adapter, build, call.a, call.b)
            \/ dist_panics(call.adapter, build, call.b, call.a)
         THEN call' = [call EXCEPT !.build = build, !.status = "panicked"]
         ELSE call' = [call EXCEPT !.build = build, !.status = "returned",
                          !.ab = dist_value(call.adapter, call.a, call.b),
                          !.ba = dist_value(call.adapter, call.b, call.a)]
    /\ UNCHANGED kmeansVars

DistSpec == DistInit /\ [][DistCall]_vars

\* C6: dist is defined on the full range of the coordinate type, symmetric,
\* non-negative, and zero exactly for equal points.
C6_DistMetric ==
    (call.fn = "dist" /\ call.status # "pending") =>
        /\ call.status = "returned"
        /\ call.ab = call.ba
        /\ call.ab >= 0
        /\ call.ab = 0 <=> call.a = call.b

MeanCoords(ad) == IF ad = "unsigned" THEN 0..MaxCoord ELSE (-MaxCoord)..MaxCoord

\* <$T>::try_from(..).unwrap(): the quotient must lie in the coordinate type.
narrows(ad, v) ==
    IF ad = "unsigned" THEN 0 <= v /\ v < TypeRange
    ELSE -(TypeRange \div 2) <= v /\ v < TypeRange \div 2

MeanInit ==
    /\ Idle
    /\ \E ad \in Adapters, d \in Dims, n \in 1..MaxMeanLen :
         \E ps \in [1..n -> [1..d -> MeanCoords(ad)]] :
            call = [fn |-> "mean", adapter |-> ad, ps |-> ps,
                    status |-> "pending", ret |-> <<>>]

MeanCall ==
    /\ call.fn = "mean"
    /\ call.status = "pending"
    /\ LET m == mean(call.ps)
       IN  IF \A j \in 1..Len(m) : narrows(call.adapter, m[j])
           THEN call' = [call EXCEPT !.status = "returned", !.ret = m]
           ELSE call' = [call EXCEPT !.status = "panicked"]
    /\ UNCHANGED kmeansVars

MeanSpec == MeanInit /\ [][MeanCall]_vars

\* The sum of coordinate j over ps.
CoordSum(ps, j) == SeqSum([i \in 1..Len(ps) |-> ps[i][j]])

\* C5: mean(ps) of a non-empty ps is the coordinate-wise arithmetic mean,
\* the quotient truncated to an integer.
C5_CoordinateMean ==
    (call.fn = "mean" /\ call.status # "pending") =>
        /\ call.status = "returned"
        /\ \A j \in 1..Len(call.ps[1]) :
              call.ret[j] = trunc_div(CoordSum(call.ps, j), Len(call.ps))

SelectInit ==
    /\ Idle
    /\ \E n \in 1..MaxLen :
         \E d \in [1..n -> 0..MaxWeight] :
            \E rn2 \in Draws(d) :
               call = [fn |-> "select_point", distribution |-> d, rn2 |-> rn2,
                       status |-> "pending", ret |-> 0]

SelectCall ==
    /\ call.fn = "select_point"
    /\ call.status = "pending"
    /\ call' = [call EXCEPT !.status = "returned",
                            !.ret = select_point(call.distribution, call.rn2)]
    /\ UNCHANGED kmeansVars

SelectSpec == SelectInit /\ [][SelectCall]_vars

\* The 0-based indices whose cumulative weight strictly exceeds the draw.
Exceeding(d, rn2) ==
    {i \in 0..(Len(d) - 1) : 2 * SeqSum(SubSeq(d, 1, i + 1)) > rn2}

\* C9: select_point returns the first index whose cumulative weight
\* strictly exceeds the draw; the candidate returned has positive weight.
C9_WeightedSelection ==
    (call.fn = "select_point" /\ call.status = "returned") =>
        /\ call.ret \in Exceeding(call.distribution, call.rn2)
        /\ \A i \in Exceeding(call.distribution, call.rn2) : call.ret <= i
        /\ call.distribution[call.ret + 1] > 0

----------------------------------------------------------------------------
\* Properties of kmeans.

\* The precondition of kmeans: points non-empty, 1 <= k <= points.len().
ValidInput == pc # "Idle" /\ 1 <= k /\ k <= Len(datapoints)

\* The states right after a completed assignment pass (lib.rs:30, 43, 54)
\* and the returned value.
PassComplete == pc \in {"Recalc", "While", "LoopRecalc", "Done"}

Members(cs) == Concat([i \in 1..Len(cs) |-> cs[i].points])

\* C1: after every completed assignment pass and in the returned value there
\* are exactly k clusters, and the member lists together hold every input
\* point exactly as often as the input does: none dropped, none duplicated.
C1_Partition ==
    PassComplete =>
        /\ Len(clusters) = k
        /\ Len(Members(clusters)) = Len(datapoints)
        /\ \A p \in Range(datapoints) \cup Range(Members(clusters)) :
              Count(p, Members(clusters)) = Count(p, datapoints)

\* A run on a longest input that returned two non-empty clusters, the first
\* of them with two members.
C1_Witness ==
    /\ pc = "Done"
    /\ k = 2
    /\ Len(datapoints) = MaxLen
    /\ \A i \in 1..Len(clusters) : clusters[i].points # <<>>
    /\ Len(clusters[1].points) = 2

\* C2: from every call with a valid input kmeans eventually returns.
C2_Terminates == [](pc = "SeedFirst" /\ ValidInput => <>(pc = "Done"))

\* C3: a call with k = 0, k > points.len() or no points is rejected before
\* any work: it goes from the call straight to the error outcome (whatever
\* the error is called), with no point drawn or removed from the pool and
\* no cluster made.
C3_RejectsInvalid ==
    (pc # "Idle" /\ ~ValidInput) =>
        /\ pc \in {"SeedFirst", "Panic"}
        /\ first_point = NoPoint
        /\ pool = datapoints
        /\ clusters = <<>>

Distinct(s) == \A i, j \in 1..Len(s) : i # j => s[i] # s[j]

\* C4: with pairwise distinct points and k = points.len() kmeans returns,
\* and every returned cluster holds one member, which is its centroid.
C4_OnePointPerCluster ==
    (ValidInput /\ k = Len(datapoints) /\ Distinct(datapoints)) =>
        /\ pc # "Panic"
        /\ pc = "Done" =>
              \A i \in 1..Len(clusters) :
                 clusters[i].points = <<clusters[i].centroid>>

\* C7: on a valid input recalculate_centroid never takes the mean of an
\* empty member list: every cluster about to be recalculated has a member,
\* and no run dies dividing by the zero length.
C7_NoEmptyMean ==
    ValidInput =>
        /\ pc \in {"Recalc", "LoopRecalc"} =>
              \A i \in 1..Len(clusters) : clusters[i].points # <<>>
        /\ err # "attempt to divide by zero"

\* C8: when seeding returns on a valid input there are k clusters without
\* members, their centroids are exactly the points removed from the pool,
\* first_point among them, and the pool holds points.len() - k candidates.
C8_SeedingResult ==
    (pc = "InitialCluster" /\ ValidInput) =>
        /\ Len(clusters) = k
        /\ \A i \in 1..Len(clusters) : clusters[i].points = <<>>
        /\ centroids(clusters) = removed
        /\ first_point \in Range(centroids(clusters))
        /\ Len(pool) = Len(datapoints) - k

\* The cluster the assignment rule gives p: the nearest centroid, the lowest
\* index among equals.
NearestIndex(p, cs) ==
    CHOOSE i \in 1..Len(cs) :
        \A j \in 1..Len(cs) :
            /\ dist(p, cs[i].centroid) <= dist(p, cs[j].centroid)
            /\ j < i => dist(p, cs[i].centroid) < dist(p, cs[j].centroid)

InputOrder(cs, i) ==
    LET Mine(p) == NearestIndex(p, cs) = i
    IN  SelectSeq(datapoints, Mine)

\* C10: the returned clustering is a fixed point of one round: every
\* centroid is the mean of its members, every member is at least as near to
\* its own centroid as to any other and strictly nearer than to any centroid
\* of lower index, and each member list is in input order.
C10_FixedPoint ==
    pc = "Done" =>
        \A i \in 1..Len(clusters) :
            /\ clusters[i].points # <<>>
            /\ clusters[i].centroid = mean(clusters[i].points)
            /\ \A m \in 1..Len(clusters[i].points), j \in 1..Len(clusters) :
                  LET p == clusters[i].points[m]
                  IN  /\ dist(p, clusters[i].centroid) <= dist(p, clusters[j].centroid)
                      /\ j < i => dist(p, clusters[i].centroid) < dist(p, clusters[j].centroid)
            /\ clusters[i].points = InputOrder(clusters, i)

\* A returned clustering with a member that is equally near to two
\* centroids and whose centroids moved away from the seeds.
C10_Witness ==
    /\ pc = "Done"
    /\ Len(clusters) = 2
    /\ \E m \in 1..Len(clusters[1].points) :
          dist(clusters[1].points[m], clusters[1].centroid)
             = dist(clusters[1].points[m], clusters[2].centroid)
    /\ centroids(clusters) # SubSeq(removed, 2, Len(removed))

====
